---- MODULE Spec2Model ----
(***************************************************************************)
(* State-machine model of ase/gui/view.py (class View): the geometry       *)
(* builder (make_box, bind), the projector and depth order (set_frame,     *)
(* draw), and the interaction controller (press, move, release,            *)
(* toggle_mode, reset_tools_modes, hide/show selected).                    *)
(*                                                                         *)
(* Lengths are integers in units of 0.1 length units (so the grid step     *)
(* 0.3 is 3 and a cell side 1.0 is 10); screen coordinates are integer     *)
(* pixels.  Python arrays are functions on 0..N-1, Python lists are        *)
(* sequences.                                                              *)
(***************************************************************************)
EXTENDS Integers, Sequences, FiniteSets, TLC

VARIABLES
    natoms,              \* images.natoms
    imagesP,             \* images.P : frame -> atom -> position
    imagesA,             \* images.A : frame -> 3x3 cell matrix (rows = lattice vectors)
    imagesR,             \* images.r : atom -> display radius
    pbc,                 \* images.pbc : periodic flag per axis
    selected,            \* images.selected : boolean array over atoms
    selected_ordered,    \* images.selected_ordered : list of atom indices
    visible,             \* images.visible : boolean array over atoms
    showUnitCell,        \* window['toggle-show-unit-cell']
    showBonds,           \* window['toggle-show-bonds']
    modeActive,          \* the Rotate/Orient/Move menu toggles
    frame,               \* self.frame
    axes,                \* self.axes : 3x3 camera matrix
    scale,               \* self.scale
    center,              \* self.center
    X,                   \* self.X : atoms, then cell-grid start points, then bond start points
    B,                   \* self.B : cell-grid end points, then bond end points
    B1,                  \* self.B1 : cell-grid start templates (fractional)
    B2,                  \* self.B2 : cell-grid end templates (fractional)
    bonds,               \* self.bonds : rows (a, b, o1, o2, o3)
    indices,             \* self.indices : draw order of the last draw
    P,                   \* self.P : screen positions of the atoms at the last draw
    button,              \* self.button
    xy,                  \* self.xy : pointer position of the last press
    t0,                  \* self.t0 : time of the last press
    axes0,               \* self.axes0
    center0,             \* self.center0
    menu_change,         \* self.menu_change : re-entrancy flag
    light_green_markings,\* self.light_green_markings
    atoms_to_rotate_0,   \* self.atoms_to_rotate_0: <<array>>, or << >> while the attribute does not exist
    orient_normal,       \* self.orient_normal: <<[v, nan]>> (the direction v / |v|), or << >> while unset
    tieOrder,            \* how the build's argsort orders equal keys
    maskRule,            \* what the build's numpy does with a boolean index shorter than the axis
    down,                \* the pointer button physically held (0: none)
    exception,           \* the exception that ended the handler run last, or "none"
    ev                   \* the event or menu action handled last

vars == << natoms, imagesP, imagesA, imagesR, pbc, selected, selected_ordered,
           visible, showUnitCell, showBonds, modeActive, frame, axes, scale,
           center, X, B, B1, B2, bonds, indices, P, button, xy, t0, axes0,
           center0, menu_change, light_green_markings, atoms_to_rotate_0,
           orient_normal, tieOrder, maskRule, down, exception, ev >>

-----------------------------------------------------------------------------
(* Bounds and inputs *)

MaxAtoms == 2
MaxImage == 1
MaxOrdered == 2
\* how far a pan may carry a component of the center from where it started
MaxPan == 8

TapTime == 200
GridStep == 3
MinTicks == 2

\* the absent attribute atoms_to_rotate_0, and a row of np.empty never assigned
NoSnapshot == << >>
Unfilled == <<-1, -1, 0, 0, 0>>

Frames == {0, 1}
Modes == {"Rotate", "Orient", "Move"}
ToggledModes == {"Rotate", "Move"}
WindowSize == <<20, 20>>

\* Atom positions of frame 0; frame 1 moves every atom by FrameShift.
AtomPos == << <<3, 4, 6>>, <<4, 5, 6>>, <<2, 2, 2>>, <<8, 2, 6>>, <<5, 8, 4>> >>
FrameShift == <<0, 1, 0>>
\* A structure whose atom positions add up to a multiple of the atom count
TurnPos == << <<3, 4, 6>>, <<5, 6, 8>>, <<4, 2, 4>>, <<8, 2, 6>>, <<5, 8, 4>> >>
\* A degenerate structure: atoms 0 and 1 at one position, the others on the
\* line through it along x.
StackedPos == << <<3, 4, 6>>, <<3, 4, 6>>, <<5, 4, 6>>, <<7, 4, 6>>, <<9, 4, 6>> >>
\* Cells of frame 0: a cube of side 1.0, and a cell of height 1.4.  The cell of
\* frame 1 is the same cell or the cell with its first vector doubled.
Cubic == << <<10, 0, 0>>, <<0, 10, 0>>, <<0, 0, 10>> >>
CellSides == {Cubic, << <<10, 0, 0>>, <<0, 10, 0>>, <<0, 0, 14>> >>}
Periodicities == {<< TRUE, TRUE, TRUE >>, << FALSE, FALSE, FALSE >>}
\* rotate('0.0x,0.0y,0.0z') and rotate('-90.0x,0.0y,0.0z')
Identity == << <<1, 0, 0>>, <<0, 1, 0>>, <<0, 0, 1>> >>
InitAxes == {Identity, << <<1, 0, 0>>, <<0, 0, 1>>, <<0, -1, 0>> >>}
Scales == {1}
Centers == {<<5, 5, 5>>}
TieOrders == {"ascending", "descending"}
\* numpy before 1.13 takes a boolean index shorter than the axis as padded
\* with False; later releases raise IndexError.
MaskRules == {"padded", "checked"}

Buttons == {1, 3}
Modifiers == {"none", "ctrl"}
\* With the identity camera, scale 1 and radius 0.3 atom 0 is drawn at (8, 11)
\* and atom 1 at (9, 10), at equal depth: (6, 12) lies in the circle of atom 0
\* only, (8, 11) in both circles, (14, 7) in none.
PointerPts == {<<6, 12>>, <<8, 11>>, <<14, 7>>}
ScenePts == {<<8, 11>>}
\* the corners of a rectangle with atoms 0 and 1 strictly inside
ModePts == {<<6, 12>>, <<14, 7>>}
\* Drags: the buttons, the modifiers of a move event, the scales, and two
\* pointer positions whose distances are multiples of every scale
DragButtons == {1, 2, 3}
MoveModifiers == {"none", "shift"}
DragScales == {1, 2}
DragPts == {<<6, 12>>, <<14, 8>>}
\* the drag length in pixels that turns the camera by 0.01 * 157 = 1.57 rad
QuarterTurn == 157
\* The point of the presses of a turning drag, and the points of its moves:
\* that point, the point a quarter turn to its right (the pointer is
\* followed outside the window while a button is held), and a point near it
TurnPress == <<6, 12>>
TurnPts == {TurnPress, <<6 + QuarterTurn, 12>>, <<14, 8>>}
PressTimes == {1000}
Elapsed == {199, 200}

-----------------------------------------------------------------------------
(* numpy helpers *)

Atoms == 0 .. natoms - 1

Max(a, b) == IF a >= b THEN a ELSE b
Min(a, b) == IF a <= b THEN a ELSE b

VAdd(u, v) == << u[1] + v[1], u[2] + v[2], u[3] + v[3] >>
VSub(u, v) == << u[1] - v[1], u[2] - v[2], u[3] - v[3] >>
VScale(k, v) == << k * v[1], k * v[2], k * v[3] >>
VDot(u, v) == u[1] * v[1] + u[2] * v[2] + u[3] * v[3]

\* a cell with its first lattice vector doubled
Stretched(c) == << VScale(2, c[1]), c[2], c[3] >>

\* np.dot(v, M) for a row vector v and a 3x3 matrix M
RowDot(v, M) == << v[1] * M[1][1] + v[2] * M[2][1] + v[3] * M[3][1],
                   v[1] * M[1][2] + v[2] * M[2][2] + v[3] * M[3][2],
                   v[1] * M[1][3] + v[2] * M[2][3] + v[3] * M[3][3] >>

\* floor(sqrt(n))
ISqrt(n) == CHOOSE k \in 0 .. n : k * k <= n /\ (k + 1) * (k + 1) > n

\* number of true entries of a boolean array
CountTrue(f) == Cardinality({i \in DOMAIN f : f[i]})

Size(f) == Cardinality(DOMAIN f)

\* F(v) with v evaluated once (the model checker otherwise re-evaluates an
\* operator argument at each of its uses)
Once(v, F(_)) == CHOOSE y \in { F(w) : w \in {v} } : TRUE

TieBefore(i, j) == IF tieOrder = "ascending" THEN i < j ELSE i > j

\* the number of keys sorted before key i
Ranks(keys) ==
    [i \in DOMAIN keys |->
       Cardinality({j \in DOMAIN keys :
                      keys[j] < keys[i]
                      \/ (keys[j] = keys[i] /\ TieBefore(j, i))})]

\* keys.argsort() with numpy's default kind: ascending in the key; the order
\* of equal keys is whatever the build's sort kernel yields (tieOrder).
Argsort(keys) ==
    Once(keys, LAMBDA ks :
      Once(Ranks(ks), LAMBDA rank :
        [k \in DOMAIN rank |-> CHOOSE i \in DOMAIN rank : rank[i] = k]))

-----------------------------------------------------------------------------
(* Geometry builder: make_box, the neighbour list, bind *)

\* Mutant of StepsIn: the quotient rounded up, the smallest k with
\* (0.3 k)^2 >= v.v
StepsInRoundedUp(v) ==
    LET vv == VDot(v, v)
    IN  CHOOSE k \in 0 .. vv :
            GridStep * GridStep * k * k >= vv
            /\ (k = 0 \/ GridStep * GridStep * (k - 1) * (k - 1) < vv)

\* int(d / 0.3) for d = sqrt(v.v): the largest k with (0.3 k)^2 <= v.v
StepsIn(v) ==
    LET vv == VDot(v, v)
    IN  CHOOSE k \in 0 .. ISqrt(vv) :
            GridStep * GridStep * k * k <= vv
            /\ GridStep * GridStep * (k + 1) * (k + 1) > vv

\* n = max(2, int(d / 0.3)) for lattice vector c of the first frame's cell
TickCount(c) == Max(MinTicks, StepsIn(imagesA[0][c + 1]))

\* One template row: the fractional coordinates num / den.  In block c
\* (tick k of lattice vector c, corner (i, j) of the other two axes)
\* coordinate c is 2 k h with h = 1 / (2 n - 1); B2 adds h to it.
BoxRow(n, c, k, i, j, isEnd) ==
    LET den == 2 * n - 1
        at(x) == IF x = c THEN 2 * k + (IF isEnd THEN 1 ELSE 0)
                 ELSE IF x = (c + 1) % 3 THEN i * den
                 ELSE j * den
    IN  [num |-> << at(0), at(1), at(2) >>, den |-> den]

\* make_box: the (2, 2, sum(nn), 3) arrays reshaped to (-1, 3); empty when
\* the unit cell is not shown.
MakeBoxRows(show, isEnd) ==
    IF ~show THEN << >>
    ELSE
      Once(<< TickCount(0), TickCount(1), TickCount(2) >>, LAMBDA nn :
        LET S == nn[1] + nn[2] + nn[3]
            row(q) ==
              LET ij == q \div S
                  m  == q % S
                  c  == IF m < nn[1] THEN 0
                        ELSE IF m < nn[1] + nn[2] THEN 1 ELSE 2
                  k  == IF c = 0 THEN m
                        ELSE IF c = 1 THEN m - nn[1] ELSE m - nn[1] - nn[2]
              IN  BoxRow(nn[c + 1], c, k, ij \div 2, ij % 2, isEnd)
        IN  [q \in 0 .. 4 * S - 1 |-> row(q)])

MakeB1(show) == MakeBoxRows(show, FALSE)
MakeB2(show) == MakeBoxRows(show, TRUE)

\* np.dot(template row, A): the cell matrices of the model keep this exact
GridPoint(row, A) ==
    LET v == RowDot(row.num, A)
    IN  << v[1] \div row.den, v[2] \div row.den, v[3] \div row.den >>

\* The image offsets (n1, n2, n3) the neighbour search visits, in its loop
\* order: one half space, and only along periodic axes.
ImageRange(c) == IF pbc[c] THEN MaxImage ELSE 0
HalfOffsets ==
    LET side == 2 * MaxImage + 1
        all  == [q \in 1 .. (MaxImage + 1) * side * side |->
                   << (q - 1) \div (side * side),
                      (((q - 1) \div side) % side) - MaxImage,
                      ((q - 1) % side) - MaxImage >>]
        keep(o) == /\ o[1] <= ImageRange(1)
                   /\ o[2] <= ImageRange(2) /\ -o[2] <= ImageRange(2)
                   /\ o[3] <= ImageRange(3) /\ -o[3] <= ImageRange(3)
                   /\ ~(o[1] = 0 /\ (o[2] < 0 \/ (o[2] = 0 /\ o[3] < 0)))
    IN  SelectSeq(all, keep)

\* NeighborList(r * 1.5, skin=0, self_interaction=False).get_neighbors(a) for
\* the positions and cell of frame f: the pairs <<index, offset>> with
\* |P[i] + offset.cell - P[a]| < 1.5 r[i] + 1.5 r[a], each undirected pair once.
GetNeighbors(a, f) ==
    LET cand == Once(HalfOffsets, LAMBDA offs :
                  [q \in 1 .. Len(offs) * natoms |->
                     << (q - 1) % natoms, offs[(q - 1) \div natoms + 1] >>])
        near(c) ==
          LET d == VSub(VAdd(imagesP[f][c[1]], RowDot(c[2], imagesA[f])),
                        imagesP[f][a])
              reach == imagesR[c[1]] + imagesR[a]
          IN  /\ 4 * VDot(d, d) < 9 * reach * reach
              /\ (c[2] = <<0, 0, 0>> => c[1] > a)
    IN  SelectSeq(cand, near)

IsPeriodic(row) == << row[3], row[4], row[5] >> # <<0, 0, 0>>

\* The forward rows bind writes for atoms 0 .. a: (a, index, offset)
RECURSIVE ForwardRows(_, _)
ForwardRows(a, f) ==
    IF a < 0 THEN << >>
    ELSE ForwardRows(a - 1, f) \o
         Once(GetNeighbors(a, f), LAMBDA nbrs :
           [q \in 1 .. Len(nbrs) |->
              << a, nbrs[q][1], nbrs[q][2][1], nbrs[q][2][2], nbrs[q][2][3] >>])

\* Mutant of MirrorRow: the endpoints swapped, the offset kept
MirrorRowSameOffset(row) == << row[2], row[1], row[3], row[4], row[5] >>

\* The mirror of a row: endpoints swapped, offset negated
MirrorRow(row) == << row[2], row[1], -row[3], -row[4], -row[5] >>

\* bind, line 175: the mask i has n2 entries, one per forward row
PeriodicRows(fwd) == SelectSeq(fwd, IsPeriodic)

\* bind, lines 176-178: self.bonds[i, ...] indexes the nb rows of self.bonds
\* with the n2-entry mask i.  With nb > n2 (some forward row has a non-zero
\* offset) a checking numpy raises IndexError at line 176.
BindRaises(show, f) ==
    /\ show
    /\ maskRule = "checked"
    /\ Len(PeriodicRows(ForwardRows(natoms - 1, f))) > 0

\* bind(frame): np.empty((nb, 5)) for nb = nl.nneighbors + nl.npbcneighbors
\* (all neighbours, plus those with a non-zero offset), the forward rows, then
\* the mirrors of the rows with a non-zero offset written into the rows from
\* n2 on; these rows stay as np.empty left them when line 176 raises.
Bind(show, f) ==
    IF ~show THEN << >>
    ELSE
      Once(ForwardRows(natoms - 1, f), LAMBDA fwd :
        Once(PeriodicRows(fwd), LAMBDA per :
          LET nneighbors == Len(fwd)
              npbcneighbors == Len(per)
              nb  == nneighbors + npbcneighbors
              n2  == Len(fwd)
          IN  [q \in 0 .. nb - 1 |->
                 IF q < n2 THEN fwd[q + 1]
                 ELSE IF maskRule = "padded"
                      THEN MirrorRow(per[q - n2 + 1])
                      ELSE Unfilled]))

-----------------------------------------------------------------------------
(* Projector: set_frame, draw *)

\* set_frame, lines 62-74: start and end point of the bond line of one row
\* for frame f.  x0 = 0.65 r[a] / d and x1 = 0.65 r[b] / d; the real
\* arithmetic is kept as fractions over 20 d and floored to the model's grid.
BondVec(row, f) ==
    VSub(VAdd(imagesP[f][row[2]],
              RowDot(<< row[3], row[4], row[5] >>, imagesA[f])),
         imagesP[f][row[1]])
BondStart(row, f) ==
    LET b == BondVec(row, f)
        q == 20 * ISqrt(VDot(b, b))
        k == 13 * imagesR[row[1]]
    IN  VAdd(imagesP[f][row[1]],
             << (b[1] * k) \div q, (b[2] * k) \div q, (b[3] * k) \div q >>)
BondEnd(row, f) ==
    LET b == BondVec(row, f)
        d == ISqrt(VDot(b, b))
        half == IF IsPeriodic(row) THEN 2 ELSE 1
        q == 20 * d * half
        k == 20 * d - 13 * imagesR[row[1]] - 13 * imagesR[row[2]]
    IN  VAdd(BondStart(row, f),
             << (b[1] * k) \div q, (b[2] * k) \div q, (b[3] * k) \div q >>)

\* set_frame, lines 52-74 and 87: the new self.X.  The cell-grid rows are
\* recomputed when init or the cell of the new frame differs from the cell of
\* the current one, the bond rows when init or the frame changes, the atom
\* rows always.
SetFrameX(Xv, B1v, bondsv, cur, f, init) ==
    LET nc == Size(B1v)
        nb == Size(bondsv)
        switch == init \/ f # cur
        newCell == init \/ imagesA[f] # imagesA[cur]
    IN  [q \in 0 .. natoms + nc + nb - 1 |->
           IF q < natoms THEN imagesP[f][q]
           ELSE IF q < natoms + nc
                THEN IF switch /\ newCell
                     THEN GridPoint(B1v[q - natoms], imagesA[f])
                     ELSE Xv[q]
           ELSE IF switch THEN BondStart(bondsv[q - natoms - nc], f)
                ELSE Xv[q]]

\* set_frame, lines 57-74: the new self.B
SetFrameB(Bv, B2v, bondsv, cur, f, init) ==
    LET nc == Size(B2v)
        nb == Size(bondsv)
        switch == init \/ f # cur
        newCell == init \/ imagesA[f] # imagesA[cur]
    IN  [q \in 0 .. nc + nb - 1 |->
           IF q < nc
           THEN IF switch /\ newCell THEN GridPoint(B2v[q], imagesA[f])
                ELSE Bv[q]
           ELSE IF switch THEN BondEnd(bondsv[q - nc], f)
                ELSE Bv[q]]

\* draw, lines 516-519: X = np.dot(self.X, axes) - offset with
\* axes = scale * self.axes * (1, -1, 1) and the window centre as origin
ScreenAxes(ax, sc) ==
    [i \in 1 .. 3 |-> << sc * ax[i][1], -(sc * ax[i][2]), sc * ax[i][3] >>]
ScreenOffset(ax, sc, ce) ==
    LET o == RowDot(ce, ScreenAxes(ax, sc))
    IN  << o[1] - WindowSize[1] \div 2, o[2] - WindowSize[2] \div 2, o[3] >>
Screen(Xv, ax, sc, ce) ==
    Once(<< ScreenAxes(ax, sc), ScreenOffset(ax, sc, ce) >>, LAMBDA so :
      [q \in DOMAIN Xv |-> VSub(RowDot(Xv[q], so[1]), so[2])])

\* draw, line 521: self.indices = X[:, 2].argsort()
DrawIndices(Xv, ax, sc, ce) ==
    Once(Screen(Xv, ax, sc, ce), LAMBDA S :
      Argsort([q \in DOMAIN S |-> S[q][3]]))

\* draw, line 526: self.P = X[:n, :2]
DrawP(Xv, ax, sc, ce) ==
    Once(Screen(Xv, ax, sc, ce), LAMBDA S :
      [a \in Atoms |-> << S[a][1], S[a][2] >>])

\* draw, lines 572-574: the marking branch calls arc, a name bound nowhere
\* in view.py, so the painting loop raises NameError at the first marked
\* atom; self.indices and self.P are already assigned by then.
DrawRaises(lgm, snap) ==
    /\ lgm = 1
    /\ natoms > 0
    /\ IF Len(snap) = 0 THEN TRUE ELSE \E a \in Atoms : snap[1][a]

\* the exception a handler ends with when its last statement is draw()
DrawException(raised) == IF raised THEN "NameError" ELSE "none"

-----------------------------------------------------------------------------
(* Interaction controller: press, release *)

\* The event or call handled: the fields of the pointer event, the mode of a
\* menu toggle, and the frame asked of set_frame (-1 in every other handler)
Event(type, b, p, t, m, mode) ==
    [type |-> type, button |-> b, x |-> p[1], y |-> p[2], time |-> t,
     modifier |-> m, mode |-> mode, frame |-> -1]

AllFalse == [a \in Atoms |-> FALSE]

\* release, lines 627-628: hit = |P - xy|^2 < (scale * r)^2, tested at the
\* pointer position of the press
Hit(a) ==
    LET dx == P[a][1] - xy[1]
        dy == P[a][2] - xy[2]
    IN  dx * dx + dy * dy < (scale * imagesR[a]) * (scale * imagesR[a])

\* release, lines 629-630: the first atom of self.indices[::-1] that is hit
PlaceIn(ind, a) == CHOOSE k \in DOMAIN ind : ind[k] = a
AnyHit == \E a \in Atoms : Hit(a)
\* Mutant of FrontHit: the loop runs over self.indices, not reversed
FrontHitFirstDrawn ==
    CHOOSE a \in Atoms :
        /\ Hit(a)
        /\ \A c \in Atoms : Hit(c) => PlaceIn(indices, a) <= PlaceIn(indices, c)

FrontHit ==
    CHOOSE a \in Atoms :
        /\ Hit(a)
        /\ \A c \in Atoms : Hit(c) => PlaceIn(indices, c) <= PlaceIn(indices, a)

\* Mutant of BoxHit: the comparisons include the border
BoxHitWithBorder(a, x, y) ==
    /\ P[a][1] >= Min(x, xy[1]) /\ P[a][1] <= Max(x, xy[1])
    /\ P[a][2] >= Min(y, xy[2]) /\ P[a][2] <= Max(y, xy[2])

\* release, lines 650-654: the atoms whose screen position lies strictly
\* inside the rectangle spanned by the press point and the release point
BoxHit(a, x, y) ==
    /\ P[a][1] > Min(x, xy[1]) /\ P[a][1] < Max(x, xy[1])
    /\ P[a][2] > Min(y, xy[2]) /\ P[a][2] < Max(y, xy[2])
BoxIndices(x, y) == {a \in Atoms : BoxHit(a, x, y)}

\* release, lines 626-663: the selection flags (mutated in place), the list
\* object images.selected_ordered after the in-place "+=" (shared), and the
\* local name selected_ordered (local) when draw is called.
TapEffect(m) ==
    IF ~AnyHit
    THEN [sel |-> AllFalse, shared |-> selected_ordered, local |-> << >>]
    ELSE
      LET a == FrontHit
          so == selected_ordered
      IN  IF m = "ctrl"
          THEN LET sel == [selected EXCEPT ![a] = ~selected[a]]
               IN  IF sel[a]
                   THEN [sel |-> sel, shared |-> Append(so, a),
                         local |-> Append(so, a)]
                   ELSE IF Len(so) > 0
                   THEN IF so[Len(so)] = a
                        THEN [sel |-> sel, shared |-> so,
                              local |-> SubSeq(so, 1, Len(so) - 1)]
                        ELSE [sel |-> sel, shared |-> so, local |-> << >>]
                   ELSE [sel |-> sel, shared |-> so, local |-> so]
          ELSE [sel |-> [c \in Atoms |-> c = a], shared |-> so,
                local |-> << a >>]

BoxEffect(m, x, y) ==
    LET ins == BoxIndices(x, y)
        so  == selected_ordered
        sel == [a \in Atoms |->
                  (a \in ins) \/ (m = "ctrl" /\ selected[a])]
        one == CHOOSE a \in ins : TRUE
    IN  IF Cardinality(ins) = 1 /\ ~(\E q \in 1 .. Len(so) : so[q] = one)
        THEN [sel |-> sel, shared |-> Append(so, one),
              local |-> Append(so, one)]
        ELSE IF Cardinality(ins) > 1
        THEN [sel |-> sel, shared |-> so, local |-> << >>]
        ELSE [sel |-> sel, shared |-> so, local |-> so]

\* Mutant of IsTap: the threshold compared with <=
IsTapInclusive(time) == time <= t0 + TapTime

\* release, line 626: the tap threshold
IsTap(time) == time < t0 + TapTime

ReleaseEffect(m, x, y, time) ==
    IF IsTap(time) THEN TapEffect(m) ELSE BoxEffect(m, x, y)

\* release, lines 665-668: the list stored on the images.  The lines are
\* reached only when draw returned; when draw raised, the images keep the
\* list object as the in-place updates left it.
StoredOrdered(eff, raised) ==
    IF raised THEN eff.shared
    ELSE IF CountTrue(eff.sel) # Len(eff.local) THEN << >>
    ELSE eff.local

camera == << axes, scale, center >>
structure == << natoms, imagesP, imagesA, imagesR, pbc, tieOrder, maskRule >>
geometry == << X, B, B1, B2, bonds, frame, showUnitCell, showBonds >>
pressState == << button, xy, t0, axes0, center0 >>
modeState == << modeActive, menu_change, light_green_markings,
                atoms_to_rotate_0, orient_normal >>

\* press(event)
Press(b, p, t) ==
    /\ down = 0
    /\ down' = b
    /\ button' = b
    /\ xy' = p
    /\ t0' = t
    /\ axes0' = axes
    /\ center0' = center
    /\ ev' = Event("press", b, p, t, "none", "none")
    /\ exception' = "none"
    /\ UNCHANGED << camera, structure, geometry, modeState, selected,
                    selected_ordered, visible, indices, P >>

\* release(event) for the buttons other than the wheel (4 and 5 go to
\* scroll_event): nothing for a button other than 1, else point or box
\* selection, draw, and the consistency check of the ordered list.
Release(b, p, time, m) ==
    /\ down = b
    /\ down' = 0
    /\ ev' = Event("release", b, p, time, m, "none")
    /\ IF b # 1
       THEN /\ exception' = "none"
            /\ UNCHANGED << selected, selected_ordered, indices, P >>
       ELSE LET eff == ReleaseEffect(m, p[1], p[2], time)
                raised == DrawRaises(light_green_markings, atoms_to_rotate_0)
            IN  /\ selected' = eff.sel
                /\ indices' = DrawIndices(X, axes, scale, center)
                /\ P' = DrawP(X, axes, scale, center)
                /\ selected_ordered' = StoredOrdered(eff, raised)
                /\ exception' = DrawException(raised)
    /\ Len(selected_ordered') <= MaxOrdered
    /\ UNCHANGED << camera, structure, geometry, modeState, pressState,
                    visible >>

-----------------------------------------------------------------------------
(* Interaction controller: move *)

\* np.dot(M, v) for a 3x3 matrix M and a vector v; np.dot(M, N); M.T
MatVec(M, v) == << VDot(M[1], v), VDot(M[2], v), VDot(M[3], v) >>
Transpose(M) == [i \in 1 .. 3 |-> << M[1][i], M[2][i], M[3][i] >>]
MatMul(M, N) == [i \in 1 .. 3 |-> RowDot(M[i], N)]

\* v / scale; the pointer distances of the model are multiples of the scale
VOver(v, k) == << v[1] \div k, v[2] \div k, v[3] \div k >>

\* move, lines 679-680 and 690: the pointer delta (x - x0, y0 - y, 0)
PointerDelta(p) == << p[1] - xy[1], xy[2] - p[2], 0 >>

\* Mutant of PanCenter: the delta is taken off the current center
PanFromCurrentCenter(p) ==
    VSub(center, VOver(MatVec(axes, PointerDelta(p)), scale))

\* move, lines 689-690: the center of a shift drag
PanCenter(p) ==
    VSub(center0, VOver(MatVec(axes, PointerDelta(p)), scale))

\* move, lines 702-703: cos(0.01 * t) and sin(0.01 * t) to the nearest
\* integer for the drag lengths the model takes: t = 0, and t = QuarterTurn
\* pixels, where cos(1.57) = 0.0008 and sin(1.57) = 1.0000
Cos(t) == IF t = 0 THEN 1 ELSE 0
Sin(t) == IF t = 0 THEN 0 ELSE 1

\* The drags whose rotation matrix the model computes: of length 0, and of
\* QuarterTurn pixels along x or along y
TurnModelled(d) ==
    LET t == ISqrt(d[1] * d[1] + d[2] * d[2])
    IN  t * t = d[1] * d[1] + d[2] * d[2] /\ t \in {0, QuarterTurn}

\* move, lines 693-706: the rotation matrix of a drag with the pointer delta
\* d; a drag of length 0 takes a = 1 and b = 0
DragRotation(d) ==
    LET t == ISqrt(d[1] * d[1] + d[2] * d[2])
        a == IF t > 0 THEN d[1] \div t ELSE 1
        b == IF t > 0 THEN d[2] \div t ELSE 0
        c == Cos(t)
        s == -Sin(t)
    IN  << << c * a * a + b * b, (c - 1) * b * a, s * a >>,
           << (c - 1) * a * b, c * b * b + a * a, s * b >>,
           << -s * a, -s * b, c >> >>

\* move, lines 708-711: the point the rotation turns about, as the sum of
\* count vectors (the mean of the atom rows of self.X, or of the three cell
\* vectors when there are no atoms)
RECURSIVE SumRows(_, _)
SumRows(rows, k) ==
    IF k = 0 THEN << 0, 0, 0 >> ELSE VAdd(SumRows(rows, k - 1), rows[k])

\* the sum of the rows of the marked atoms among the first k
RECURSIVE SumMarked(_, _, _)
SumMarked(rows, flags, k) ==
    IF k = 0 THEN << 0, 0, 0 >>
    ELSE IF flags[k - 1] THEN VAdd(SumMarked(rows, flags, k - 1), rows[k - 1])
    ELSE SumMarked(rows, flags, k - 1)

\* Mutant of Com: the rotation turns about the mean of the selected atoms
\* when an atom is selected
ComOfSelection ==
    IF CountTrue(selected) > 0
    THEN [sum |-> SumMarked(X, selected, natoms),
          count |-> CountTrue(selected)]
    ELSE IF natoms > 0
    THEN [sum |-> SumRows([k \in 1 .. natoms |-> X[k - 1]], natoms),
          count |-> natoms]
    ELSE [sum |-> SumRows(imagesA[frame], 3), count |-> 3]

Com ==
    IF natoms > 0
    THEN [sum |-> SumRows([k \in 1 .. natoms |-> X[k - 1]], natoms),
          count |-> natoms]
    ELSE [sum |-> SumRows(imagesA[frame], 3), count |-> 3]

\* move, lines 712-713: center = com - np.dot(com - center0,
\* np.dot(axes0, axes.T)), computed on count * com
RotateCenter(com, newAxes) ==
    LET d == VSub(com.sum, VScale(com.count, center0))
        turned == RowDot(d, MatMul(axes0, Transpose(newAxes)))
    IN  VOver(VSub(com.sum, turned), com.count)

\* The model's lengths are whole multiples of 0.1: it takes the rotations
\* whose new center is one
CenterOnGrid(com, newAxes) ==
    LET d == VSub(com.sum, VScale(com.count, center0))
        turned == RowDot(d, MatMul(axes0, Transpose(newAxes)))
    IN  \A i \in 1 .. 3 : (com.sum[i] - turned[i]) % com.count = 0

InPanRange(c) ==
    \A i \in 1 .. 3 : \E c0 \in Centers :
       c[i] - c0[i] <= MaxPan /\ c0[i] - c[i] <= MaxPan

\* Mutant of ReturnsEarly: button 1 goes on to the pan and rotate code
ReturnsEarlyMiddleOnly(b) == b = 2

\* move, lines 681-687: the buttons for which move returns before it touches
\* the camera (button 1 after drawing the rectangle)
ReturnsEarly(b) == b = 1 \/ b = 2

\* move(event), delivered while a button is held.  Button 1 draws the
\* rubber-band rectangle on the canvas and returns, button 2 returns; any
\* other button pans with shift and otherwise rotates, and draws.  Without
\* shift the model takes the drags of TurnModelled.
Move(p, m) ==
    /\ down # 0
    /\ ev' = Event("move", button, p, 0, m, "none")
    /\ IF ReturnsEarly(button)
       THEN /\ exception' = "none"
            /\ UNCHANGED << camera, indices, P >>
       ELSE /\ IF m = "shift"
               THEN /\ center' = PanCenter(p)
                    /\ UNCHANGED axes
               ELSE /\ TurnModelled(PointerDelta(p))
                    /\ axes' = MatMul(axes0, DragRotation(PointerDelta(p)))
                    /\ CenterOnGrid(Com, axes')
                    /\ center' = RotateCenter(Com, axes')
            /\ InPanRange(center')
            /\ UNCHANGED scale
            /\ indices' = DrawIndices(X, axes', scale, center')
            /\ P' = DrawP(X, axes', scale, center')
            /\ exception' =
                 DrawException(DrawRaises(light_green_markings,
                                          atoms_to_rotate_0))
    /\ UNCHANGED << structure, geometry, modeState, pressState, selected,
                    selected_ordered, visible, down >>

-----------------------------------------------------------------------------
(* Manipulation modes: reset_tools_modes, toggle_mode, toggle_*_mode *)

\* the elements of a set of integers in ascending order
Ascending(S) ==
    [k \in 1 .. Cardinality(S) |->
       CHOOSE x \in S : Cardinality({y \in S : y < x}) = k - 1]

Cross(u, v) == << u[2] * v[3] - u[3] * v[2],
                  u[3] * v[1] - u[1] * v[3],
                  u[1] * v[2] - u[2] * v[1] >>

\* toggle_orient_mode, lines 278-289, with the snapshot present: the normal
\* from the positions self.R of the atoms the snapshot marks, divided by its
\* norm (a zero norm leaves nan, numpy does not raise).
OrientNormal(snap, Xv) ==
    LET pos == Ascending({a \in Atoms : snap[1][a]})
        v == IF Len(pos) = 2 THEN VSub(Xv[pos[1]], Xv[pos[2]])
             ELSE IF Len(pos) = 3
             THEN Cross(VSub(Xv[pos[2]], Xv[pos[1]]),
                        VSub(Xv[pos[2]], Xv[pos[3]]))
             ELSE << 1, 0, 0 >>
    IN  << [v |-> v, nan |-> v = << 0, 0, 0 >>] >>

\* toggle_orient_mode, lines 278-289: the statements after the guarded call
\* of toggle_mode.  Without a snapshot line 280 raises AttributeError after
\* line 278 has stored the default normal.
OrientTail(snap, Xv) ==
    IF Len(snap) = 0 THEN << [v |-> << 1, 0, 0 >>, nan |-> FALSE] >>
    ELSE OrientNormal(snap, Xv)

\* Mutant of ResetsModes: an empty selection resets the modes also when two
\* toggles are on
ResetsModesWhenNothingSelected(act) ==
    LET i_sum == Cardinality({c \in Modes : act[c]})
    IN  i_sum = 0 \/ CountTrue(selected) = 0

\* toggle_mode, line 200: the branch that calls reset_tools_modes
ResetsModes(act) ==
    LET i_sum == Cardinality({c \in Modes : act[c]})
    IN  i_sum = 0 \/ (i_sum = 1 /\ CountTrue(selected) = 0)

\* Mutant of AfterSum: with two toggles active the selection is rebound to
\* the snapshot indexed by itself (its true entries only)
AfterSumCompressed(act) ==
    LET i_sum == Cardinality({c \in Modes : act[c]})
    IN  IF i_sum = 2
        THEN IF Len(atoms_to_rotate_0) = 1
             THEN [sel |-> [k \in 0 .. CountTrue(atoms_to_rotate_0[1]) - 1
                              |-> TRUE],
                   snap |-> atoms_to_rotate_0]
             ELSE [sel |-> selected, snap |-> << selected >>]
        ELSE IF i_sum = 1
        THEN [sel |-> selected, snap |-> << selected >>]
        ELSE [sel |-> selected, snap |-> atoms_to_rotate_0]

\* toggle_mode, lines 204-210: selection and snapshot after the i_sum branches
AfterSum(act) ==
    LET i_sum == Cardinality({c \in Modes : act[c]})
    IN  IF i_sum = 2
        THEN IF Len(atoms_to_rotate_0) = 1
             THEN [sel |-> atoms_to_rotate_0[1], snap |-> atoms_to_rotate_0]
             ELSE [sel |-> selected, snap |-> << selected >>]
        ELSE IF i_sum = 1
        THEN [sel |-> selected, snap |-> << selected >>]
        ELSE [sel |-> selected, snap |-> atoms_to_rotate_0]

\* Mutant of AfterEnter: entering the mode leaves the selection flags set
AfterEnterKeepsFlags(mode, act, mid, lgm) ==
    IF act[mode]
    THEN [sel |-> mid.sel, snap |-> << mid.sel >>, lgm |-> 1]
    ELSE [sel |-> mid.sel, snap |-> mid.snap, lgm |-> lgm]

\* toggle_mode, lines 217-229: entering the mode snapshots and clears the
\* selection and sets the marking; otherwise the snapshot is copied back.
AfterEnter(mode, act, mid, lgm) ==
    IF act[mode]
    THEN [sel |-> [a \in DOMAIN mid.sel |-> FALSE], snap |-> << mid.sel >>,
          lgm |-> 1]
    ELSE IF Len(mid.snap) = 1
    THEN [sel |-> [a \in DOMAIN mid.sel |->
                     IF a \in DOMAIN mid.snap[1] THEN mid.snap[1][a]
                     ELSE mid.sel[a]],
          snap |-> mid.snap, lgm |-> lgm]
    ELSE [sel |-> mid.sel, snap |-> mid.snap, lgm |-> lgm]

\* Mutant of OthersOff: the other toggles are left as they are
OthersKept(mode, act) == act

\* toggle_mode, lines 212-215: set_active(False) on every toggle but mode
OthersOff(mode, act) == [c \in Modes |-> c = mode /\ act[c]]

\* reset_tools_modes(): the three toggles off, the marking off, draw
ResetToolsModes ==
    /\ modeActive' = [c \in Modes |-> FALSE]
    /\ light_green_markings' = 0
    /\ menu_change' = 0
    /\ indices' = DrawIndices(X, axes, scale, center)
    /\ P' = DrawP(X, axes, scale, center)

\* repeat_window(): reset_tools_modes(), then the Repeat dialog
RepeatWindow ==
    /\ ResetToolsModes
    /\ ev' = Event("repeat_window", 0, << 0, 0 >>, 0, "none", "none")
    /\ exception' = "none"
    /\ UNCHANGED << camera, structure, geometry, pressState, selected,
                    selected_ordered, visible, atoms_to_rotate_0,
                    orient_normal, down >>

\* The menu toggle of one mode is flipped and its callback runs:
\* toggle_move_mode / toggle_rotate_mode / toggle_orient_mode call
\* toggle_mode(mode) while menu_change is 0.  set_active(False) on another
\* active toggle runs that toggle's callback with menu_change = 1, which
\* skips toggle_mode; for Orient the statements after the guard still run.
\* The handler ends with the NameError of the draw of toggle_mode, or, for
\* Orient without a snapshot, with the AttributeError of line 280.
ToggleMode(mode) ==
    LET act1 == [modeActive EXCEPT ![mode] = ~modeActive[mode]]
        guarded == menu_change = 0
        reset == guarded /\ ResetsModes(act1)
        mid == AfterSum(act1)
        act2 == OthersOff(mode, act1)
        nested == mode # "Orient" /\ act1["Orient"]
        fin == AfterEnter(mode, act2, mid, light_green_markings)
        raised == guarded /\ ~reset /\ DrawRaises(fin.lgm, fin.snap)
        snapOut == IF guarded /\ ~reset THEN fin.snap ELSE atoms_to_rotate_0
    IN  /\ ev' = Event("toggle_mode", 0, << 0, 0 >>, 0, "none", mode)
        /\ IF ~guarded
           THEN /\ modeActive' = act1
                /\ UNCHANGED << selected, light_green_markings, menu_change,
                                atoms_to_rotate_0, indices, P >>
           ELSE IF reset
           THEN /\ ResetToolsModes
                /\ UNCHANGED << selected, atoms_to_rotate_0 >>
           ELSE /\ modeActive' = act2
                /\ selected' = fin.sel
                /\ atoms_to_rotate_0' = fin.snap
                /\ light_green_markings' = fin.lgm
                /\ menu_change' = 0
                /\ indices' = DrawIndices(X, axes, scale, center)
                /\ P' = DrawP(X, axes, scale, center)
        /\ orient_normal' =
             IF mode = "Orient"
             THEN IF raised THEN orient_normal ELSE OrientTail(snapOut, X)
             ELSE IF guarded /\ ~reset /\ nested
             THEN OrientTail(mid.snap, X)
             ELSE orient_normal
        /\ exception' =
             IF raised THEN "NameError"
             ELSE IF mode = "Orient" /\ Len(snapOut) = 0
             THEN "AttributeError"
             ELSE "none"
        /\ UNCHANGED << camera, structure, geometry, pressState,
                        selected_ordered, visible, down >>

-----------------------------------------------------------------------------
(* Visibility, frame switch, display toggles *)

\* hide_selected / show_selected: visible[selected] = False / True, draw
SetVisible(value) ==
    /\ visible' = [a \in DOMAIN visible |->
                     IF a \in DOMAIN selected /\ selected[a] THEN value
                     ELSE visible[a]]
    /\ indices' = DrawIndices(X, axes, scale, center)
    /\ P' = DrawP(X, axes, scale, center)
    /\ ev' = Event(IF value THEN "show_selected" ELSE "hide_selected",
                   0, << 0, 0 >>, 0, "none", "none")
    /\ exception' =
         DrawException(DrawRaises(light_green_markings, atoms_to_rotate_0))
    /\ UNCHANGED << camera, structure, geometry, pressState, modeState,
                    selected, selected_ordered, down >>

\* Mutant of SetFrame: the requested frame is not stored in self.frame
SetFrameNotStored(f) ==
    /\ \A q \in DOMAIN bonds : bonds[q] # Unfilled
    /\ X' = SetFrameX(X, B1, bonds, frame, f, FALSE)
    /\ B' = SetFrameB(B, B2, bonds, frame, f, FALSE)
    /\ frame' = frame
    /\ indices' = DrawIndices(X', axes, scale, center)
    /\ P' = DrawP(X', axes, scale, center)
    /\ ev' = [Event("set_frame", 0, << 0, 0 >>, 0, "none", "none")
                EXCEPT !.frame = f]
    /\ exception' =
         DrawException(DrawRaises(light_green_markings, atoms_to_rotate_0))
    /\ UNCHANGED << camera, structure, pressState, modeState, selected,
                    selected_ordered, visible, down, B1, B2, bonds,
                    showUnitCell, showBonds >>

\* set_frame(frame) without focus.  Bond rows that bind left unfilled hold
\* uninitialised memory; the model does not follow set_frame into them.
SetFrame(f) ==
    /\ \A q \in DOMAIN bonds : bonds[q] # Unfilled
    /\ X' = SetFrameX(X, B1, bonds, frame, f, FALSE)
    /\ B' = SetFrameB(B, B2, bonds, frame, f, FALSE)
    /\ frame' = f
    /\ indices' = DrawIndices(X', axes, scale, center)
    /\ P' = DrawP(X', axes, scale, center)
    /\ ev' = [Event("set_frame", 0, << 0, 0 >>, 0, "none", "none")
                EXCEPT !.frame = f]
    /\ exception' =
         DrawException(DrawRaises(light_green_markings, atoms_to_rotate_0))
    /\ UNCHANGED << camera, structure, pressState, modeState, selected,
                    selected_ordered, visible, down, B1, B2, bonds,
                    showUnitCell, showBonds >>

\* set_coordinates(): make_box, bind(self.frame), a fresh self.X, then
\* set_frame(self.frame, init=True); when bind raises, the statements after
\* it are not reached.
SetCoordinates(cell, bnd) ==
    /\ B1' = MakeB1(cell)
    /\ B2' = MakeB2(cell)
    /\ bonds' = Bind(bnd, frame)
    /\ IF BindRaises(bnd, frame)
       THEN /\ exception' = "IndexError"
            /\ UNCHANGED << X, B, indices, P >>
       ELSE /\ X' = SetFrameX(<< >>, B1', bonds', frame, frame, TRUE)
            /\ B' = SetFrameB(<< >>, B2', bonds', frame, frame, TRUE)
            /\ indices' = DrawIndices(X', axes, scale, center)
            /\ P' = DrawP(X', axes, scale, center)
            /\ exception' =
                 DrawException(DrawRaises(light_green_markings,
                                          atoms_to_rotate_0))
    /\ UNCHANGED frame

\* toggle_show_unit_cell(): the toggle has been flipped, set_coordinates()
ToggleShowUnitCell ==
    /\ showUnitCell' = ~showUnitCell
    /\ UNCHANGED showBonds
    /\ SetCoordinates(showUnitCell', showBonds)
    /\ ev' = Event("toggle_show_unit_cell", 0, << 0, 0 >>, 0, "none", "none")
    /\ UNCHANGED << camera, structure, pressState, modeState, selected,
                    selected_ordered, visible, down >>

\* toggle_show_bonds(): the toggle has been flipped, set_coordinates()
ToggleShowBonds ==
    /\ showBonds' = ~showBonds
    /\ UNCHANGED showUnitCell
    /\ SetCoordinates(showUnitCell, showBonds')
    /\ ev' = Event("toggle_show_bonds", 0, << 0, 0 >>, 0, "none", "none")
    /\ UNCHANGED << camera, structure, pressState, modeState, selected,
                    selected_ordered, visible, down >>

-----------------------------------------------------------------------------
(* Specification *)

\* The view after the GUI has loaded the images and called
\* set_coordinates(0) for the first time, for the structures, cameras and
\* display toggles drawn from the given sets.
InitPlaced(places, zooms, cells, radii, pbcs, cameras, cellShown, masks) ==
    /\ natoms \in 0 .. MaxAtoms
    /\ \E pos \in places :
          imagesP = [f \in Frames |-> [a \in Atoms |->
                       IF f = 0 THEN pos[a + 1]
                       ELSE VAdd(pos[a + 1], FrameShift)]]
    /\ \E c \in cells : \E c1 \in {c, Stretched(c)} :
          imagesA = [f \in Frames |-> IF f = 0 THEN c ELSE c1]
    /\ \E r \in radii : imagesR = [a \in Atoms |-> r]
    /\ pbc \in pbcs
    /\ tieOrder \in TieOrders
    /\ maskRule \in masks
    /\ axes \in cameras
    /\ scale \in zooms
    /\ center \in Centers
    /\ selected = AllFalse
    /\ selected_ordered = << >>
    /\ visible = [a \in Atoms |-> TRUE]
    /\ showUnitCell \in cellShown
    /\ showBonds = FALSE
    /\ modeActive = [c \in Modes |-> FALSE]
    /\ menu_change = 0
    /\ light_green_markings = 0
    /\ atoms_to_rotate_0 = NoSnapshot
    /\ orient_normal = << >>
    /\ frame = 0
    /\ B1 = MakeB1(showUnitCell)
    /\ B2 = MakeB2(showUnitCell)
    /\ bonds = Bind(showBonds, 0)
    /\ X = SetFrameX(<< >>, B1, bonds, 0, 0, TRUE)
    /\ B = SetFrameB(<< >>, B2, bonds, 0, 0, TRUE)
    /\ indices = DrawIndices(X, axes, scale, center)
    /\ P = DrawP(X, axes, scale, center)
    /\ button = 0
    /\ xy = << 0, 0 >>
    /\ t0 = 0
    /\ axes0 = axes
    /\ center0 = center
    /\ down = 0
    /\ exception = "none"
    /\ ev = Event("init", 0, << 0, 0 >>, 0, "none", "none")

\* The view over the atom positions AtomPos at the scales Scales
InitWith(cells, radii, pbcs, cameras, cellShown, masks) ==
    InitPlaced({AtomPos}, Scales, cells, radii, pbcs, cameras, cellShown,
               masks)

\* Pointer events of the primary button: a press, and the release at any
\* point, delay and modifier.
PrimaryPointer(pts) ==
    \/ \E p \in pts, t \in PressTimes : Press(1, p, t)
    \/ \E p \in pts, dt \in Elapsed, m \in Modifiers :
          Release(1, p, t0 + dt, m)

\* Pointer events of the other buttons
OtherPointer(pts) ==
    \/ \E b \in Buttons \ {1}, p \in pts, t \in PressTimes : Press(b, p, t)
    \/ \E b \in Buttons \ {1} : Release(b, xy, t0, "none")

\* Spec: the interaction controller on the default view (cell and bonds not
\* shown), the pointer at the points PointerPts, the Rotate and Move menu
\* toggles and the Repeat dialog.
Init == InitWith({Cubic}, {3}, {<< TRUE, TRUE, TRUE >>}, {Identity}, {FALSE}, {"checked"})

Next ==
    \/ PrimaryPointer(PointerPts)
    \/ \E mode \in ToggledModes : ToggleMode(mode)
    \/ RepeatWindow

Spec == Init /\ [][Next]_vars

\* SpecScene: the interaction controller together with hide/show selected
\* and the frame switch, the pointer at one point, every button.
InitScene == InitWith({Cubic}, {3}, {<< FALSE, FALSE, FALSE >>}, {Identity}, {FALSE}, {"checked"})

NextScene ==
    \/ PrimaryPointer(ScenePts)
    \/ OtherPointer(ScenePts)
    \/ \E mode \in ToggledModes : ToggleMode(mode)
    \/ \E value \in BOOLEAN : SetVisible(value)
    \/ \E f \in Frames : SetFrame(f)

SpecScene == InitScene /\ [][NextScene]_vars

\* SpecGeom: the geometry builder and the projector over the structures,
\* cameras and display toggles of the model.
InitGeom ==
    InitWith(CellSides, {4}, Periodicities, InitAxes, {FALSE}, MaskRules)

NextGeom ==
    \/ \E f \in Frames : SetFrame(f)
    \/ ToggleShowBonds
    \/ ToggleShowUnitCell

SpecGeom == InitGeom /\ [][NextGeom]_vars

\* SpecModes: the three menu toggles Rotate, Orient and Move with point and
\* box selection, over the structure AtomPos and the degenerate StackedPos.
InitModes ==
    InitPlaced({AtomPos, StackedPos}, Scales, {Cubic}, {3},
               {<< FALSE, FALSE, FALSE >>}, {Identity}, {FALSE}, {"checked"})

NextModes ==
    \/ PrimaryPointer(ModePts)
    \/ \E mode \in Modes : ToggleMode(mode)

SpecModes == InitModes /\ [][NextModes]_vars

\* SpecDrag: presses, moves and releases of every button at two pointer
\* positions, over both cameras and two scales.
InitDrag ==
    InitPlaced({AtomPos}, DragScales, {Cubic}, {3},
               {<< FALSE, FALSE, FALSE >>}, InitAxes, {FALSE}, {"checked"})

NextDrag ==
    \/ PrimaryPointer(DragPts)
    \/ \E b \in DragButtons \ {1}, p \in DragPts, t \in PressTimes :
          Press(b, p, t)
    \/ \E b \in DragButtons \ {1} : Release(b, xy, t0, "none")
    \/ \E p \in DragPts, m \in MoveModifiers : Move(p, m)

SpecDrag == InitDrag /\ [][NextDrag]_vars

\* SpecTurn: drags of the secondary button that rotate by a quarter turn
\* about the vertical screen axis or pan, between taps of the primary button
\* that select atoms.
InitTurn ==
    InitPlaced({TurnPos}, Scales, {Cubic}, {3}, {<< FALSE, FALSE, FALSE >>},
               {Identity}, {FALSE}, {"checked"})

NextTurn ==
    \/ \E b \in Buttons, t \in PressTimes : Press(b, TurnPress, t)
    \/ \E m \in Modifiers : Release(1, xy, t0 + TapTime - 1, m)
    \/ Release(3, xy, t0, "none")
    \/ \E p \in TurnPts, m \in MoveModifiers : Move(p, m)

SpecTurn == InitTurn /\ [][NextTurn]_vars

-----------------------------------------------------------------------------
(* Properties *)

\* the boolean array that flags exactly the atoms of S
Flags(S) == [a \in Atoms |-> a \in S]

\* the step is a release of the primary button; less than 200 ms after the
\* press; 200 ms or more after it; at the point of the press
PrimaryRelease == ev'.type = "release" /\ ev'.button = 1
Tapped == PrimaryRelease /\ ev'.time - t0 < TapTime
Dragged == PrimaryRelease /\ ev'.time - t0 >= TapTime
Unmoved == ev'.x = xy[1] /\ ev'.y = xy[2]

\* the atoms whose circle (radius scale * r around the screen position of the
\* last draw) contains the point of the press
UnderPointer ==
    {a \in Atoms :
       (P[a][1] - xy[1]) * (P[a][1] - xy[1])
         + (P[a][2] - xy[2]) * (P[a][2] - xy[2])
       < scale * imagesR[a] * scale * imagesR[a]}

\* the atom of H that comes last in the draw order of the last draw
LastDrawn(H) ==
    CHOOSE a \in H :
       \A c \in H : \A i, j \in DOMAIN indices :
          (indices[i] = c /\ indices[j] = a) => i <= j

\* the atoms strictly inside the rectangle between the press point and the
\* release point of the step
InsideBox ==
    {a \in Atoms :
       /\ P[a][1] > Min(xy[1], ev'.x) /\ P[a][1] < Max(xy[1], ev'.x)
       /\ P[a][2] > Min(xy[2], ev'.y) /\ P[a][2] < Max(xy[2], ev'.y)}

\* the flags a point selection and a box selection leave
PointFlags ==
    IF UnderPointer = {} THEN Flags({})
    ELSE IF ev'.modifier = "ctrl"
    THEN [selected EXCEPT ![LastDrawn(UnderPointer)] = ~@]
    ELSE Flags({LastDrawn(UnderPointer)})
BoxFlags ==
    [a \in Atoms |-> a \in InsideBox \/ (ev'.modifier = "ctrl" /\ selected[a])]

\* C1: a tap without modifier at a point inside the circle of atom k and of
\* no other atom leaves the selection {k} and the ordered list [k]; a
\* following ctrl-tap on the same atom leaves both empty.
C1_TapSelectsTheAtom ==
    [][\A k \in Atoms :
         (Tapped /\ Unmoved /\ UnderPointer = {k}) =>
            /\ ev'.modifier = "none" =>
                 selected' = Flags({k}) /\ selected_ordered' = << k >>
            /\ (/\ ev'.modifier = "ctrl"
                /\ selected = Flags({k})
                /\ selected_ordered = << k >>) =>
                 selected' = Flags({}) /\ selected_ordered' = << >>]_vars

\* C2: a release 200 ms or more after the press selects exactly the atoms
\* strictly inside the rectangle between press and release point: without
\* modifier the selection becomes that set, with ctrl its union with the
\* prior selection.
C2_BoxSelection ==
    [][Dragged =>
         selected' = [a \in Atoms |->
                        a \in InsideBox
                        \/ (ev'.modifier = "ctrl" /\ selected[a])]]_vars

\* C2 witness: a ctrl box release over atom 1, atom 0 on the border of the
\* rectangle, that leaves {0, 1}: atom 0 comes from the prior selection
C2_Witness ==
    /\ natoms = 2
    /\ ev.type = "release" /\ ev.button = 1 /\ ev.modifier = "ctrl"
    /\ ev.time - t0 >= TapTime
    /\ xy = << 8, 11 >> /\ ev.x = 14 /\ ev.y = 7
    /\ P[0] = << 8, 11 >> /\ P[1] = << 9, 10 >>
    /\ selected = Flags({0, 1})

\* C3: after every release of the primary button the ordered list is empty
\* or as long as the number of selected atoms.
C3_ReleaseLeavesListConsistent ==
    [][PrimaryRelease =>
         \/ Len(selected_ordered') = 0
         \/ Len(selected_ordered') =
              Cardinality({a \in Atoms : selected'[a]})]_vars

\* C4: in every reachable state the ordered list is empty or as long as the
\* number of true selection flags.
C4_ListConsistentEverywhere ==
    \/ Len(selected_ordered) = 0
    \/ Len(selected_ordered) = Cardinality({a \in Atoms : selected[a]})

\* C5: the selection array has one entry per atom in every reachable state.
C5_SelectionLength == DOMAIN selected = 0 .. natoms - 1

\* C5 witness: the Move toggle switched on, the selection cleared and a
\* snapshot of two flags marking an atom stored
C5_Witness ==
    /\ natoms = 2
    /\ ev.type = "toggle_mode" /\ ev.mode = "Move" /\ modeActive["Move"]
    /\ Len(atoms_to_rotate_0) = 1
    /\ DOMAIN atoms_to_rotate_0[1] = 0 .. 1
    /\ \E a \in Atoms : atoms_to_rotate_0[1][a]
    /\ selected = Flags({})

\* C6: with bonds shown every bond row is filled, every row with a non-zero
\* offset has its mirror (endpoints swapped, offset negated) stored, and a
\* pair with zero offset is stored once.
C6_BondsMirrored ==
    showBonds =>
      /\ \A q \in DOMAIN bonds :
            bonds[q][1] \in Atoms /\ bonds[q][2] \in Atoms
      /\ \A q \in DOMAIN bonds :
            << bonds[q][3], bonds[q][4], bonds[q][5] >> # << 0, 0, 0 >> =>
               \E m \in DOMAIN bonds :
                  bonds[m] = << bonds[q][2], bonds[q][1],
                                -bonds[q][3], -bonds[q][4], -bonds[q][5] >>
      /\ \A q, m \in DOMAIN bonds :
            (q # m /\ << bonds[q][3], bonds[q][4], bonds[q][5] >> = << 0, 0, 0 >>)
               => /\ bonds[m] # bonds[q]
                  /\ bonds[m] # << bonds[q][2], bonds[q][1], 0, 0, 0 >>

\* C7: the draw order is a permutation of the drawables, non-decreasing in
\* projected depth, with drawables of equal depth in the order of their index.
OrderedByDepthThenIndex ==
    LET S == Screen(X, axes, scale, center)
        D == DOMAIN X
    IN  /\ DOMAIN indices = D
        /\ {indices[k] : k \in D} = D
        /\ \A k \in D \ {0} :
              \/ S[indices[k - 1]][3] < S[indices[k]][3]
              \/ /\ S[indices[k - 1]][3] = S[indices[k]][3]
                 /\ indices[k - 1] < indices[k]
C7_DepthOrderTiesByIndex ==
    [][ev'.type \in {"set_frame", "toggle_show_bonds", "toggle_show_unit_cell"}
         => OrderedByDepthThenIndex']_vars

\* C8 as stated: for the cubic cell of side 1.0, shown, make_box produces
\* 4 x 3 x max(2, ceil(1 / 0.3)) = 48 start points and 48 end points.
C8_SegmentsRoundedUp ==
    (showUnitCell /\ imagesA[0] = Cubic) =>
       LET side == Cubic[1][1]
           n == Max(MinTicks, (side + GridStep - 1) \div GridStep)
       IN  Size(B1) = 4 * 3 * n /\ Size(B2) = 4 * 3 * n

\* C8 amended: for the cubic cell of side 1.0, shown, make_box produces
\* 4 x 3 x max(2, floor(1 / 0.3)) = 36 start points and 36 end points.
C8_SegmentsRoundedDown ==
    (showUnitCell /\ imagesA[0] = Cubic) =>
       LET side == Cubic[1][1]
           n == Max(MinTicks, side \div GridStep)
       IN  Size(B1) = 4 * 3 * n /\ Size(B2) = 4 * 3 * n

\* C8 witness: the cubic cell shown with its 36 segments
C8_Witness ==
    /\ showUnitCell /\ imagesA[0] = Cubic
    /\ ev.type = "toggle_show_unit_cell"
    /\ Size(B1) = 36 /\ Size(B2) = 36

\* C9: a tap at a point inside the circles of several atoms affects only
\* the hit atom drawn last: ctrl toggles its flag and leaves every other
\* flag, no modifier selects it alone.
C9_FrontMostHitWins ==
    [][(Tapped /\ Unmoved /\ Cardinality(UnderPointer) > 1) =>
         LET front == LastDrawn(UnderPointer)
         IN  IF ev'.modifier = "ctrl"
             THEN /\ selected'[front] = ~selected[front]
                  /\ \A a \in Atoms \ {front} : selected'[a] = selected[a]
             ELSE /\ selected'[front]
                  /\ \A a \in Atoms \ {front} : ~selected'[a]]_vars

\* C9 witness: a ctrl-tap at a point inside the circles of atoms 0 and 1,
\* both at the same depth and atom 0 drawn last, that added atom 0 to the
\* selection {1}
C9_Witness ==
    /\ natoms = 2
    /\ ev.type = "release" /\ ev.button = 1 /\ ev.modifier = "ctrl"
    /\ ev.time - t0 < TapTime
    /\ xy = << 8, 11 >> /\ ev.x = 8 /\ ev.y = 11
    /\ UnderPointer = {0, 1}
    /\ indices[1] = 0
    /\ selected = Flags({0, 1})

\* C10: the elapsed time alone picks the path: less than 200 ms is a point
\* selection at the press point wherever the release is, 200 ms or more a box
\* selection; a release exactly 200 ms after the press at the same point
\* selects nothing and, without ctrl, clears the selection.
C10_TimeChoosesThePath ==
    [][PrimaryRelease =>
         /\ ev'.time - t0 < TapTime => selected' = PointFlags
         /\ ev'.time - t0 >= TapTime => selected' = BoxFlags
         /\ (ev'.time - t0 = TapTime /\ Unmoved) =>
               selected' = IF ev'.modifier = "ctrl" THEN selected
                           ELSE Flags({})]_vars

\* C10 witness: a release exactly 200 ms after the press, at the press point
\* inside the circle of atom 0, without modifier, that left nothing selected
C10_Witness ==
    /\ natoms = 2
    /\ ev.type = "release" /\ ev.button = 1 /\ ev.modifier = "none"
    /\ ev.time - t0 = TapTime
    /\ ev.x = xy[1] /\ ev.y = xy[2]
    /\ UnderPointer = {0}
    /\ selected = Flags({})

\* the manipulation modes whose menu toggle is on; the step is the callback
\* of a menu toggle
ActiveModes == {c \in Modes : modeActive[c]}
ToggleStep == ev'.type = "toggle_mode"

\* C11: after every handler at most one of the three modes is active and
\* menu_change is 0; switching a mode on while another one is active runs
\* toggle_mode once: the callback of the toggle that is switched off does not
\* run it again, so the new mode alone is active, with the marking set.
C11_ModesExclusive ==
    /\ [](Cardinality(ActiveModes) <= 1 /\ menu_change = 0)
    /\ [][(ToggleStep /\ ActiveModes # {} /\ ev'.mode \notin ActiveModes) =>
             /\ ActiveModes' = {ev'.mode}
             /\ light_green_markings' = 1
             /\ menu_change' = 0]_vars

\* C11 witness: Move switched on over a snapshot of atoms 0 and 1 after the
\* callback of the Orient toggle has derived the normal from these two atoms
C11_Witness ==
    /\ natoms = 2
    /\ ev.type = "toggle_mode" /\ ev.mode = "Move"
    /\ ActiveModes = {"Move"}
    /\ menu_change = 0
    /\ atoms_to_rotate_0 = << Flags({0, 1}) >>
    /\ orient_normal = << [v |-> << -1, -1, 0 >>, nan |-> FALSE] >>

\* the step toggles a mode on while no mode is active; the state a mode
\* entered from the current selection leaves
EntersAlone == ToggleStep /\ ActiveModes = {}
Entered ==
    /\ atoms_to_rotate_0' = << selected >>
    /\ selected' = Flags({})
    /\ ActiveModes' = {ev'.mode}
    /\ light_green_markings' = 1

\* C12 as stated: toggling a mode on while no mode is active snapshots the
\* selection, clears every flag, and leaves the mode active with the marking
\* set, for every prior selection.
C12_EntryForEverySelection == [][EntersAlone => Entered]_vars

\* C12 amended: toggling a mode on while no mode is active and at least one
\* atom is selected snapshots the selection, clears every flag, and leaves
\* the mode active with the marking set.
C12_EntryForNonEmptySelection ==
    [][(EntersAlone /\ \E a \in Atoms : selected[a]) => Entered]_vars

\* C12 witness: Rotate entered from the selection {0}
C12_Witness ==
    /\ natoms = 2
    /\ ev.type = "toggle_mode" /\ ev.mode = "Rotate"
    /\ ActiveModes = {"Rotate"}
    /\ atoms_to_rotate_0 = << Flags({0}) >>
    /\ selected = Flags({})
    /\ light_green_markings = 1

\* the step toggles the one active mode off; the handler before it entered
\* that mode
ExitsMode == ToggleStep /\ ActiveModes = {ev'.mode}
JustEntered == ev.type = "toggle_mode" /\ ev.mode = ev'.mode

\* C13: toggling the one active mode off leaves the selection equal to the
\* snapshot taken on entry, or fully cleared; when the mode was entered by
\* the handler just before, it leaves the selection equal to the snapshot.
C13_ExitRestoresSelection ==
    [][(ExitsMode /\ Len(atoms_to_rotate_0) = 1) =>
         /\ selected' = atoms_to_rotate_0[1] \/ selected' = Flags({})
         /\ JustEntered => selected' = atoms_to_rotate_0[1]]_vars

\* C14: a mode toggle on a view that has never taken a snapshot, here with
\* nothing selected, returns without an exception and changes nothing but the
\* mode state: every toggle is off afterwards, there is still no snapshot,
\* and selection, ordered list, visibility and camera are as before.
C14_ToggleWithoutSnapshot ==
    [][(ToggleStep /\ atoms_to_rotate_0 = NoSnapshot /\ selected = Flags({}))
         => /\ exception' = "none"
            /\ ActiveModes' = {}
            /\ atoms_to_rotate_0' = NoSnapshot
            /\ UNCHANGED << selected, selected_ordered, visible, camera >>]_vars

\* the atoms the snapshot marks; they are two atoms at one position, or three
\* atoms on one line
Marked == {a \in Atoms : atoms_to_rotate_0[1][a]}
ZeroNormal ==
    \/ \E a, b \in Atoms : a # b /\ Marked = {a, b} /\ X[a] = X[b]
    \/ \E a, b, c \in Atoms :
          /\ Cardinality({a, b, c}) = 3 /\ Marked = {a, b, c}
          /\ Cross(VSub(X[b], X[a]), VSub(X[b], X[c])) = << 0, 0, 0 >>

\* C15: when toggle_orient_mode derives the normal from a snapshot of two
\* atoms at one position or of three collinear atoms, the stored normal is
\* left as it was and holds no nan (no division by a zero norm).
C15_ZeroNormGuarded ==
    [][(/\ ToggleStep /\ ev'.mode = "Orient" /\ exception' = "none"
        /\ Len(atoms_to_rotate_0') = 1 /\ ZeroNormal') =>
         /\ orient_normal' = orient_normal
         /\ \A q \in 1 .. Len(orient_normal') : ~orient_normal'[q].nan]_vars

\* C16: in every state the cached cell-grid start points X[n:n+nc] and end
\* points B[:nc] are the templates B1 and B2 multiplied by the cell of the
\* displayed frame.
C16_GridOfDisplayedFrame ==
    LET nc == Size(B1)
    IN  /\ Size(B2) = nc
        /\ \A q \in 0 .. nc - 1 :
              /\ natoms + q \in DOMAIN X
              /\ q \in DOMAIN B
              /\ X[natoms + q] = GridPoint(B1[q], imagesA[frame])
              /\ B[q] = GridPoint(B2[q], imagesA[frame])

\* C17: with bonds shown the bond list holds the neighbour pairs of the
\* displayed frame: one row per pair the neighbour search finds for the
\* positions and cell of that frame, in its order, and one more row for each
\* pair across the cell boundary.
C17_BondsOfDisplayedFrame ==
    showBonds =>
      LET fwd == ForwardRows(natoms - 1, frame)
      IN  /\ Size(bonds) = Len(fwd) + Len(PeriodicRows(fwd))
          /\ \A q \in 1 .. Len(fwd) : bonds[q - 1] = fwd[q]

\* C18: set_frame(f) without focus leaves the camera, the selection flags,
\* the ordered list and the mode state as they were, and f is the displayed
\* frame afterwards.
C18_FrameSwitchKeepsViewState ==
    [][ev'.type = "set_frame" =>
         /\ frame' = ev'.frame
         /\ UNCHANGED << camera, selected, selected_ordered, modeState >>]_vars

\* C18 witness: frame 1 displayed by set_frame while Move is active and an
\* atom tapped inside the mode is selected and listed
C18_Witness ==
    /\ ev.type = "set_frame" /\ ev.frame = 1 /\ frame = 1
    /\ ActiveModes = {"Move"}
    /\ \E a \in Atoms : selected[a]
    /\ Len(selected_ordered) > 0

\* the step is a move event; the center after it is the center of the press
\* less the pointer delta (x - x0, y0 - y, 0) multiplied by the camera axes
\* and divided by the scale; the screen positions are those of a draw with
\* the camera after the step
MoveStep == ev'.type = "move"
Panned ==
    LET d == << ev'.x - xy[1], xy[2] - ev'.y, 0 >>
    IN  \A i \in 1 .. 3 : scale * (center0[i] - center'[i]) = VDot(axes[i], d)
Redrawn ==
    /\ P' = DrawP(X, axes', scale', center')
    /\ indices' = DrawIndices(X, axes', scale', center')

\* C19 as stated: a move event with shift while button 1 is the pressed
\* button pans: the center is moved from the center of the press by the
\* pointer delta along the camera axes over the scale, and the view is drawn.
C19_PrimaryShiftMovePans ==
    [][(MoveStep /\ ev'.button = 1 /\ ev'.modifier = "shift") =>
         Panned /\ Redrawn]_vars

\* C19 amended: a move event with shift while button 3 is the pressed button
\* pans: the center is moved from the center of the press by the pointer
\* delta along the camera axes over the scale, and the view is drawn; axes
\* and scale stay.
C19_SecondaryShiftMovePans ==
    [][(MoveStep /\ ev'.button = 3 /\ ev'.modifier = "shift") =>
         Panned /\ Redrawn /\ UNCHANGED << axes, scale >>]_vars

\* C19 witness: button 3 pressed at (6, 12) and moved with shift to (14, 8)
\* at scale 2 under the rotated camera: the center has gone from (5, 5, 5)
\* to (1, 5, 7)
C19_Witness ==
    /\ ev.type = "move" /\ ev.button = 3 /\ ev.modifier = "shift"
    /\ xy = << 6, 12 >> /\ ev.x = 14 /\ ev.y = 8
    /\ scale = 2 /\ axes # Identity
    /\ center0 = << 5, 5, 5 >>
    /\ center = << 1, 5, 7 >>

\* C20: a move event without modifier while button 1 is the pressed button
\* leaves the camera, the selection flags, the ordered list and the press
\* snapshot (button, xy, t0, axes0, center0) as they were.
C20_PrimaryMoveChangesNothing ==
    [][(MoveStep /\ ev'.button = 1 /\ ev'.modifier = "none") =>
         UNCHANGED << camera, selected, selected_ordered, pressState >>]_vars

\* C20 witness: button 1 held and moved away from the press point, without
\* modifier, with atom 0 selected and listed
C20_Witness ==
    /\ natoms = 2
    /\ ev.type = "move" /\ ev.button = 1 /\ ev.modifier = "none"
    /\ down = 1 /\ button = 1
    /\ << ev.x, ev.y >> # xy
    /\ selected = Flags({0})
    /\ selected_ordered = << 0 >>

\* C22: no handler ends with the exception of a draw: every redraw returns,
\* also while a mode is active and the snapshot marks an atom.
C22_DrawNeverRaises == exception # "NameError"

\* C24: a tap of the primary button at a point inside no atom's circle, with
\* or without ctrl, leaves every selection flag false and the ordered list
\* empty.
C24_TapOnEmptySpaceClears ==
    [][(Tapped /\ UnderPointer = {}) =>
         selected' = Flags({}) /\ selected_ordered' = << >>]_vars

\* C25: toggling a second mode on while a first one is active leaves the
\* snapshot as it was (the one taken when the first mode was entered), the
\* selection empty whatever was selected inside the first mode, and the
\* second mode alone active.
C25_SwitchKeepsSnapshot ==
    [][(ToggleStep /\ ActiveModes # {} /\ ev'.mode \notin ActiveModes) =>
         /\ atoms_to_rotate_0' = atoms_to_rotate_0
         /\ selected' = Flags({})
         /\ ActiveModes' = {ev'.mode}]_vars

\* C25 witness: Move switched on over the snapshot {0} of an earlier mode in
\* which atom 1 had been ctrl-tapped (it is on the ordered list, selected no
\* more)
C25_Witness ==
    /\ natoms = 2
    /\ ev.type = "toggle_mode" /\ ev.mode = "Move"
    /\ ActiveModes = {"Move"}
    /\ atoms_to_rotate_0 = << Flags({0}) >>
    /\ selected = Flags({})
    /\ selected_ordered = << 0, 1 >>

\* the ordered list names exactly the selected atoms, each once
ListEnumeratesSelection ==
    /\ {selected_ordered[q] : q \in 1 .. Len(selected_ordered)}
         = {a \in Atoms : selected[a]}
    /\ \A q, r \in 1 .. Len(selected_ordered) :
          selected_ordered[q] = selected_ordered[r] => q = r

\* C26: after every release of the primary button a non-empty ordered list
\* names exactly the selected atoms, each once; and a ctrl-tap on an
\* unselected atom, made when the list names exactly the selected atoms in
\* the order they were tapped, appends that atom to the list.
C26_ListEnumeratesSelection ==
    [][PrimaryRelease =>
         /\ Len(selected_ordered') > 0 => ListEnumeratesSelection'
         /\ (/\ Tapped /\ ev'.modifier = "ctrl" /\ UnderPointer # {}
             /\ ~selected[LastDrawn(UnderPointer)]
             /\ ListEnumeratesSelection) =>
               selected_ordered' =
                 Append(selected_ordered, LastDrawn(UnderPointer))]_vars

\* a move event of a drag with a button other than 1 and 2, and such a move
\* without modifier
DragMove == MoveStep /\ ev'.button \notin {1, 2}
RotateStep == DragMove /\ ev'.modifier = "none"
\* the point sum / count is drawn after the move where it was drawn at the
\* press
PivotFixed(sum, count) ==
    RowDot(VSub(sum, VScale(count, center')), axes')
      = RowDot(VSub(sum, VScale(count, center0)), axes0)
AtomSum == SumMarked(X, [a \in Atoms |-> TRUE], natoms)
CellSum == VAdd(VAdd(imagesA[frame][1], imagesA[frame][2]), imagesA[frame][3])
StructurePivotFixed ==
    IF natoms > 0 THEN PivotFixed(AtomSum, natoms) ELSE PivotFixed(CellSum, 3)

\* C21 as stated: a rotate move keeps the centroid of the selected atoms
\* where it was drawn at the press whenever an atom is selected, and the
\* centroid of the whole structure only when no atom is selected.
C21_PivotIsSelectionCentroid ==
    [][RotateStep =>
         IF CountTrue(selected) > 0
         THEN PivotFixed(SumMarked(X, selected, natoms), CountTrue(selected))
         ELSE StructurePivotFixed]_vars

\* C21, amended: a rotate move keeps the centroid of all atoms of the
\* displayed frame where it was drawn at the press whenever the structure has
\* an atom, whatever is selected, and the mean of the three cell vectors when
\* it has none.
C21_PivotIsStructureCentroid == [][RotateStep => StructurePivotFixed]_vars

\* a quarter turn about the centroid of two atoms of which atom 0 is selected
C21_Witness ==
    /\ natoms = 2
    /\ ev.type = "move" /\ ev.button = 3 /\ ev.modifier = "none"
    /\ down = 3
    /\ selected = Flags({0})
    /\ axes # axes0
    /\ center # center0

\* C23: after every move of a drag with a button other than 1 and 2 the
\* camera is what the press snapshot, the pointer position and the modifier
\* of that move give: with shift the axes of the press and its center moved
\* by the pointer delta, without modifier the axes of the press turned by the
\* rotation of the pointer delta about the fixed pivot; and a move to the
\* press position without modifier restores the axes and center of the press.
C23_DragFromPressSnapshot ==
    [][DragMove =>
         LET d == << ev'.x - xy[1], xy[2] - ev'.y, 0 >>
         IN  /\ ev'.modifier = "shift" =>
                  /\ axes' = axes0
                  /\ VScale(scale, VSub(center0, center')) = MatVec(axes0, d)
             /\ ev'.modifier = "none" =>
                  /\ axes' = MatMul(axes0, DragRotation(d))
                  /\ StructurePivotFixed
             /\ (ev'.modifier = "none" /\ << ev'.x, ev'.y >> = xy) =>
                  axes' = axes0 /\ center' = center0]_vars

====
